---- MODULE Spec2Model ----
(***************************************************************************)
(* chaturLog: the log-chunking pipeline (backend/services/log_chunker.py)  *)
(* and the upload / analyze handlers that drive it (backend/server.py).    *)
(*                                                                         *)
(* A log line is a record [len, ts, nl]: len = len(line) in characters     *)
(* (the line terminator included), ts = the datetime _extract_timestamp    *)
(* parses from the line (NoTime when it returns None), nl = the line ends  *)
(* with "\n" (only the last line of a file may lack it).  A content string *)
(* is the sequence of lines joined by ''.join.                             *)
(***************************************************************************)
EXTENDS Integers, Sequences, FiniteSets, TLC

\* ---------------------------------------------------------------- bounds
MaxLines == 3        \* lines of a file given to the chunk producer
MaxLineLen == 2      \* len(line) of such a line
MaxTs == 2           \* distinct timestamps
MaxChunkSize == 3    \* chunk_size values tried: 1..MaxChunkSize
MaxWindow == 1       \* time_window_seconds values tried: 0..MaxWindow
MaxAnalyses == 1     \* uploads (analysis ids 1..MaxAnalyses)
MaxCalls == 2        \* invocations of analyze_logs, possibly overlapping
MaxSegments == 2     \* lines (= segments) of an uploaded file
MaxRunSegments == 3  \* the same, where a single analyze call is followed
MaxPutAnalyses == 2  \* analysis ids used on a bare ChunkIndex
SegmentLineLen == 50000  \* len(line) of each line of an uploaded file
MaxPuts == 3         \* store_chunk_summary calls on a bare ChunkIndex
MaxIndexPuts == 3    \* the same, where the reads of ChunkIndex are followed
MaxAggregateCalls == 2   \* aggregate_summaries calls in a row
LongFileExtra == 1   \* lines a long segment has beyond the scanned ten
MaxLifecycleAnalyses == 2   \* analyses uploaded where analyses get deleted
MaxCacheIds == 2     \* ids used on a bare AnalysisContextCache
MaxTicks == 3        \* advances of the wall clock

\* ---------------------------------------------------- program constants
TimeScanLines == 10          \* lines[:min(10, ...)] / lines[-min(10, ...):]

CHUNK_THRESHOLD == 100000    \* analyze_logs: "if file_size >= CHUNK_THRESHOLD"
PipelineChunkSize == 10000   \* process_with_chunking: LogChunker(chunk_size=10000)

NoTime == 0                  \* Python None for a timestamp
NULL == [null |-> TRUE]      \* SQL NULL / Python None for structured values

VARIABLES
    ck_file,        \* the lines of the file being chunked
    ck_chunk_size,  \* LogChunker.chunk_size
    ck_window,      \* time_window_seconds
    ck_strategy,    \* "none" | "size" | "time": which generator has run
    ck_chunks,      \* list(generator): the chunks yielded, in order
    sm_chunk,       \* argument of the last summarize_chunk call (or NULL)
    sm_outcome,     \* what the provider call of that call did
    sm_result       \* what that call returned or raised

chunkerVars == <<ck_file, ck_chunk_size, ck_window, ck_strategy, ck_chunks,
                 sm_chunk, sm_outcome, sm_result>>

VARIABLES
    analyses,         \* table analyses: id -> row (status "none": no row)
    chunk_summaries,  \* table chunk_summaries: rows in insertion order
    patterns,         \* table patterns: rows in insertion order
    api_keys,         \* the user's row of table api_keys, NULL when absent
    now,              \* datetime.now(), as a counter of the instants read
    calls,            \* the invocations of analyze_logs: position and locals
    last_put          \* arguments of the last direct store_chunk_summary call

pipelineVars == <<analyses, chunk_summaries, patterns, api_keys, now, calls,
                  last_put>>

VARIABLES
    ix_call,          \* the last call made on a bare ChunkIndex, with what it
                      \* returned (NULL before the first one)
    ix_puts           \* the store_chunk_summary calls made on it, in order

indexVars == <<ix_call, ix_puts>>

VARIABLES
    cache,            \* analysis_cache.cache: id -> (data, timestamp), NULL
                      \* for an id that is not a key of the dict
    clock,            \* the wall clock datetime.now() reads, in seconds
    cache_call,       \* the last call made on a bare AnalysisContextCache
    cache_sets,       \* id -> the latest set(id, ...) not cleared since
    gen_call          \* the last generate_tests call, with what it read and
                      \* the context it handed to the generator

cacheVars == <<cache, clock, cache_call, cache_sets, gen_call>>

vars == <<ck_file, ck_chunk_size, ck_window, ck_strategy, ck_chunks,
          sm_chunk, sm_outcome, sm_result,
          analyses, chunk_summaries, patterns, api_keys, now, calls, last_put,
          ix_call, ix_puts,
          cache, clock, cache_call, cache_sets, gen_call>>

\* ------------------------------------------------------------- helpers
Min(a, b) == IF a < b THEN a ELSE b

RECURSIVE SumLen(_)
SumLen(lines) ==
    IF lines = <<>> THEN 0 ELSE Head(lines).len + SumLen(Tail(lines))

RECURSIVE Concat(_)
\* concatenation of the content of a list of chunks
Concat(chunks) ==
    IF chunks = <<>> THEN <<>> ELSE Head(chunks).content \o Concat(Tail(chunks))

\* ------------------------------------------------ LogChunker (pure part)
\* _extract_timestamp: the datetime parsed from the line, None when no
\* pattern matches or no format parses
ExtractTimestamp(line) == line.ts

\* content.split('\n'): a content that ends with "\n" yields a trailing
\* empty string, which carries no timestamp
EmptyLine == [len |-> 0, ts |-> NoTime, nl |-> FALSE]

SplitLines(content) ==
    IF content = <<>> THEN <<EmptyLine>>
    ELSE IF content[Len(content)].nl THEN Append(content, EmptyLine)
    ELSE content

RECURSIVE FirstTimestamp(_)
\* "for line in ...: t = _extract_timestamp(line); if t: break"; the loop
\* variable keeps the last value, which is None when nothing was found
FirstTimestamp(lines) ==
    IF lines = <<>> THEN NoTime
    ELSE IF ExtractTimestamp(Head(lines)) # NoTime
         THEN ExtractTimestamp(Head(lines))
         ELSE FirstTimestamp(Tail(lines))

Reverse(s) == [i \in 1..Len(s) |-> s[Len(s) + 1 - i]]

ExtractTimeRange(content) ==
    LET lines == SplitLines(content)
        n     == Min(TimeScanLines, Len(lines))
        first == SubSeq(lines, 1, n)
        last  == SubSeq(lines, Len(lines) - n + 1, Len(lines))
    IN  <<FirstTimestamp(first), FirstTimestamp(Reverse(last))>>

\* the dict a generator yields ('hash' is md5(content), a function of
\* content that nothing reads, and is left out)
MkChunk(chunk_id, content, start_line, end_line, size, timestamp_range) ==
    [chunk_id |-> chunk_id, content |-> content, start_line |-> start_line,
     end_line |-> end_line, size |-> size, timestamp_range |-> timestamp_range]

\* --- stream_chunks
StreamInit ==
    [chunk_id |-> 0, buffer |-> <<>>, buffer_size |-> 0, start_line |-> 0,
     out |-> <<>>]

\* "if buffer_size >= self.chunk_size"
StreamLimitReachedStrict(buffer_size, chunk_size) == buffer_size > chunk_size
StreamLimitReached(buffer_size, chunk_size) == buffer_size >= chunk_size

\* the yield inside the loop and the four resets after it
StreamEmitNoIncrement(st, line_number) ==
    [st EXCEPT !.out = Append(@, MkChunk(st.chunk_id, st.buffer, st.start_line,
                                         line_number, st.buffer_size,
                                         ExtractTimeRange(st.buffer))),
               !.buffer = <<>>, !.buffer_size = 0, !.start_line = line_number]
StreamEmit(st, line_number) ==
    [st EXCEPT !.out = Append(@, MkChunk(st.chunk_id, st.buffer, st.start_line,
                                         line_number, st.buffer_size,
                                         ExtractTimeRange(st.buffer))),
               !.chunk_id = @ + 1,
               !.buffer = <<>>, !.buffer_size = 0, !.start_line = line_number]

\* one iteration of "for line in f"
StreamStep(st, line, line_number, chunk_size) ==
    LET st1 == [st EXCEPT !.buffer = Append(@, line),
                          !.buffer_size = @ + line.len]
    IN  IF StreamLimitReached(st1.buffer_size, chunk_size)
        THEN StreamEmit(st1, line_number)
        ELSE st1

\* "# Yield remaining content": if buffer: yield ...
StreamRemainderDropped(st, line_number) == st.out
StreamRemainder(st, line_number) ==
    IF st.buffer # <<>>
    THEN Append(st.out, MkChunk(st.chunk_id, st.buffer, st.start_line,
                                line_number, st.buffer_size,
                                ExtractTimeRange(st.buffer)))
    ELSE st.out

RECURSIVE StreamLoop(_, _, _, _)
StreamLoop(st, lines, i, chunk_size) ==
    IF i > Len(lines) THEN StreamRemainder(st, Len(lines))
    ELSE StreamLoop(StreamStep(st, lines[i], i, chunk_size), lines, i + 1,
                    chunk_size)

\* list(LogChunker(chunk_size).stream_chunks(file))
StreamChunks(lines, chunk_size) == StreamLoop(StreamInit, lines, 1, chunk_size)

\* --- smart_chunk_by_time
TimeInit ==
    [chunk_id |-> 0, current_chunk |-> <<>>, current_chunk_start_time |-> NoTime,
     start_line |-> 0, out |-> <<>>]

\* "if time_diff > time_window_seconds"
ExceedsWindowInclusive(time_diff, window) == time_diff >= window
ExceedsWindow(time_diff, window) == time_diff > window

\* one iteration of "for line in f"
TimeStep(st, line, line_number, window) ==
    LET timestamp == ExtractTimestamp(line)
        st1 == IF timestamp # NoTime /\ st.current_chunk_start_time = NoTime
               THEN [st EXCEPT !.current_chunk_start_time = timestamp]
               ELSE st
        time_diff == timestamp - st1.current_chunk_start_time
        st2 == IF timestamp # NoTime /\ ExceedsWindow(time_diff, window)
                  /\ st1.current_chunk # <<>>
               THEN [st1 EXCEPT
                       !.out = Append(@, MkChunk(st1.chunk_id, st1.current_chunk,
                                  st1.start_line, line_number - 1,
                                  SumLen(st1.current_chunk),
                                  <<st1.current_chunk_start_time, timestamp>>)),
                       !.chunk_id = @ + 1,
                       !.current_chunk = <<>>,
                       !.current_chunk_start_time = timestamp,
                       !.start_line = line_number]
               ELSE st1
    IN  [st2 EXCEPT !.current_chunk = Append(@, line)]

\* "# Yield remaining": if current_chunk: yield ...
TimeRemainder(st, line_number) ==
    IF st.current_chunk # <<>>
    THEN Append(st.out, MkChunk(st.chunk_id, st.current_chunk, st.start_line,
                                line_number, SumLen(st.current_chunk),
                                <<st.current_chunk_start_time, NoTime>>))
    ELSE st.out

RECURSIVE TimeLoop(_, _, _, _)
TimeLoop(st, lines, i, window) ==
    IF i > Len(lines) THEN TimeRemainder(st, Len(lines))
    ELSE TimeLoop(TimeStep(st, lines[i], i, window), lines, i + 1, window)

\* list(LogChunker().smart_chunk_by_time(file, time_window_seconds))
SmartChunkByTime(lines, window) == TimeLoop(TimeInit, lines, 1, window)

\* ------------------------------------------- ChunkSummarizer (pure part)
\* A provider response is a text [wrap, payload]: the payload as the model
\* wrote it and what surrounds it ("fence": a ``` block inside prose,
\* "prose": plain prose around it, "bare": nothing around it).  A payload
\* is [type, obj]: a JSON object with the dict obj, a JSON array, a JSON
\* scalar, "broken_object" ({...} that is not valid JSON) or "invalid"
\* (no braces and not JSON).
Wraps == {"fence", "prose", "bare"}

Text(t, n) == [text |-> t, len |-> n]

ErrDict == [isdict |-> TRUE, type |-> "timeout", description |-> "db timeout",
            severity |-> "high"]
ErrStr  == [isdict |-> FALSE, text |-> "disk full"]
ApiCall == [method |-> "GET", endpoint |-> "/api/users"]
PerfIssue == [issue |-> "slow query", impact |-> "2s delay"]

\* dicts the provider may answer with: a complete one, one whose
\* errors_found holds a bare string instead of a dict, and one with none
\* of the requested keys
FullObject ==
    [summary |-> Text("db errors", 120), errors_found |-> <<ErrDict>>,
     api_calls |-> <<ApiCall>>, performance_issues |-> <<PerfIssue>>,
     key_patterns |-> <<"retry">>, severity |-> "high"]
StringEntryObject ==
    [summary |-> Text("disk", 20), errors_found |-> <<ErrStr>>,
     severity |-> "critical"]
SparseObject == [note |-> "nothing found"]
SummaryObjects == {FullObject, StringEntryObject, SparseObject}

Payloads ==
    {[type |-> "object", obj |-> o] : o \in SummaryObjects}
    \cup {[type |-> t] : t \in {"array", "scalar", "broken_object", "invalid"}}

\* the provider call of one summarize_chunk: it raises (transport, quota,
\* authentication ...) or returns a text
ProviderOutcomes ==
    {[kind |-> "raise"]}
    \cup {[kind |-> "text", wrap |-> w, payload |-> p] : w \in Wraps, p \in Payloads}

HasBraces(payload) == payload.type \in {"object", "broken_object"}

\* _extract_json: the {...} of the first fenced block, else the first "{" to
\* the last "}" of the text, else the text unchanged
ExtractJson(text) ==
    IF HasBraces(text.payload)
    THEN [wrap |-> "bare", payload |-> text.payload]
    ELSE [wrap |-> text.wrap, payload |-> text.payload]

\* json.loads: the value, or JSONDecodeError
JsonLoads(text) ==
    IF text.wrap = "bare" /\ text.payload.type \in {"object", "array", "scalar"}
    THEN [raised |-> FALSE, value |-> text.payload]
    ELSE [raised |-> TRUE, exc |-> "JSONDecodeError"]

Providers == {"openai", "anthropic", "google"}

\* ChunkSummarizer.__init__: the provider chosen from the model name
ProviderOf(ai_model) ==
    IF ai_model \in {"gpt-4o", "gpt-4o-mini"} THEN "openai"
    ELSE IF ai_model = "claude-3-haiku" THEN "anthropic"
    ELSE IF ai_model = "gemini-1.5-flash" THEN "google"
    ELSE "openai"

\* the except-branch dict of summarize_chunk (it has no 'timestamp_range')
FailureSummary(chunk, exc) ==
    [chunk_id |-> chunk.chunk_id,
     summary |-> [text |-> "Error summarizing chunk", detail |-> exc, len |-> 40],
     errors_found |-> <<>>, api_calls |-> <<>>, performance_issues |-> <<>>,
     key_patterns |-> <<>>, severity |-> "unknown",
     line_range |-> <<chunk.start_line, chunk.end_line>>]

\* the try-body of summarize_chunk
SummarizeTry(provider, chunk, outcome) ==
    IF provider \notin Providers
    THEN [raised |-> TRUE, exc |-> "ValueError"]
    ELSE IF outcome.kind = "raise"
    THEN [raised |-> TRUE, exc |-> "ProviderError"]
    ELSE LET parsed == JsonLoads(ExtractJson([wrap |-> outcome.wrap,
                                              payload |-> outcome.payload]))
         IN  IF parsed.raised THEN parsed
             \* summary_data['chunk_id'] = ... on a list, number or string
             ELSE IF parsed.value.type # "object"
             THEN [raised |-> TRUE, exc |-> "TypeError"]
             ELSE [raised |-> FALSE,
                   value |-> [chunk_id |-> chunk.chunk_id,
                              line_range |-> <<chunk.start_line, chunk.end_line>>,
                              timestamp_range |-> chunk.timestamp_range]
                             @@ parsed.value.obj]

\* "except Exception": every exception the body raises is an Exception
CaughtOnlyDecodeError(exc) == exc = "JSONDecodeError"
CaughtByExcept(exc) ==
    exc \in {"ValueError", "ProviderError", "JSONDecodeError", "TypeError"}

\* summarize_chunk: [raised |-> FALSE, value |-> the dict returned] or
\* [raised |-> TRUE, exc |-> the exception that leaves the method]
SummarizeChunk(provider, chunk, outcome) ==
    LET r == SummarizeTry(provider, chunk, outcome)
    IN  IF r.raised /\ CaughtByExcept(r.exc)
        THEN [raised |-> FALSE, value |-> FailureSummary(chunk, r.exc)]
        ELSE r

\* the provider call did not end in a dict
SummarizeFailed(provider, outcome) ==
    \/ provider \notin Providers
    \/ outcome.kind = "raise"
    \/ ~(outcome.payload.type = "object")

\* ------------------------------------------------------------ ChunkIndex
\* A column value is NULL or [null |-> FALSE, ...] holding what was written.
\* json.dumps / json.loads
JsonDumps(v) == [null |-> FALSE, json |-> v]
JsonValue(s) == s.json
\* str(datetime): 'YYYY-MM-DD HH:MM:SS', ordered as the datetimes are
TimeStr(t) == [null |-> FALSE, str |-> t]

\* dict.get(key, default)
Get(d, key, default) == IF key \in DOMAIN d THEN d[key] ELSE default

\* the tuple of values store_chunk_summary binds to its INSERT
SummaryRow(analysis_id, summary) ==
    [analysis_id |-> analysis_id,
     chunk_id |-> summary.chunk_id,
     summary |-> Get(summary, "summary", Text("", 0)),
     errors_json |-> JsonDumps(Get(summary, "errors_found", <<>>)),
     api_calls_json |-> JsonDumps(Get(summary, "api_calls", <<>>)),
     performance_issues_json |-> JsonDumps(Get(summary, "performance_issues", <<>>)),
     key_patterns_json |-> JsonDumps(Get(summary, "key_patterns", <<>>)),
     severity |-> Get(summary, "severity", "info"),
     start_line |-> summary.line_range[1],
     end_line |-> summary.line_range[2],
     timestamp_start |-> IF summary.timestamp_range[1] # NoTime
                         THEN TimeStr(summary.timestamp_range[1]) ELSE NULL,
     timestamp_end |-> IF summary.timestamp_range[2] # NoTime
                       THEN TimeStr(summary.timestamp_range[2]) ELSE NULL]

\* the keys store_chunk_summary reads with summary[...]; a missing one is a
\* KeyError raised while the tuple is built, before the INSERT
SubscriptedKeys == {"chunk_id", "line_range", "timestamp_range"}

\* the table after the statement: INSERT appends a row; the table has no
\* UNIQUE constraint on (analysis_id, chunk_id) (database.py, _ensure_table)
InsertRowAsBlob(rows, row) ==
    SelectSeq(rows, LAMBDA r : r.analysis_id # row.analysis_id) \o <<row>>
InsertRow(rows, row) == Append(rows, row)

\* store_chunk_summary: [raised, rows]: the table after the call and
\* whether the call raised
StoreChunkSummary(rows, analysis_id, summary) ==
    IF SubscriptedKeys \subseteq DOMAIN summary
    THEN [raised |-> FALSE,
          rows |-> InsertRow(rows, SummaryRow(analysis_id, summary))]
    ELSE [raised |-> TRUE, rows |-> rows]

\* the stable ascending sort of s by Key: element i goes after every element
\* with a smaller key and after the earlier elements with an equal key
SortBy(s, Key(_)) ==
    LET n == Len(s)
        Pos(i) == 1 + Cardinality({j \in 1..n :
                         \/ Key(s[j]) < Key(s[i])
                         \/ (Key(s[j]) = Key(s[i]) /\ j < i)})
    IN  [p \in 1..n |-> s[CHOOSE i \in 1..n : Pos(i) = p]]

RowChunkId(r) == r.chunk_id

\* get_all_summaries: WHERE analysis_id = ? ORDER BY chunk_id ASC (rows of
\* equal chunk_id in insertion order, as the (analysis_id, chunk_id) index
\* lists them)
GetAllSummariesInsertionOrder(rows, analysis_id) ==
    SelectSeq(rows, LAMBDA r : r.analysis_id = analysis_id)
GetAllSummaries(rows, analysis_id) ==
    SortBy(SelectSeq(rows, LAMBDA r : r.analysis_id = analysis_id), RowChunkId)

\* get_summaries_by_severity: severity_levels, and severity_levels.get
SeverityLevels ==
    [critical |-> 4, high |-> 3, medium |-> 2, low |-> 1, info |-> 0]

SeverityLevel(severity, default) ==
    IF severity \in DOMAIN SeverityLevels THEN SeverityLevels[severity]
    ELSE default

\* "ORDER BY severity": SQLite compares TEXT values byte by byte (collation
\* BINARY); the severity strings of the model in that order
TextOrder ==
    <<"critical", "high", "info", "low", "medium", "severe", "unknown">>

TextRank(text) == CHOOSE i \in 1..Len(TextOrder) : TextOrder[i] = text

SeverityDescKey(r) == 0 - TextRank(r.severity)

\* get_summaries_by_severity: WHERE analysis_id = ? ORDER BY severity DESC,
\* chunk_id ASC, then the rows whose level reaches the level of min_severity
GetSummariesBySeverity(rows, analysis_id, min_severity) ==
    LET min_level == SeverityLevel(min_severity, 2)
        ordered == SortBy(GetAllSummaries(rows, analysis_id), SeverityDescKey)
    IN  SelectSeq(ordered, LAMBDA r : SeverityLevel(r.severity, 0) >= min_level)

\* a SELECT leaves the table as it is
AfterSelectEmptied(rows) == <<>>
AfterSelect(rows) == rows

RECURSIVE Flatten(_)
Flatten(lists) ==
    IF lists = <<>> THEN <<>> ELSE Head(lists) \o Flatten(Tail(lists))

\* the list built by "for summary in summaries: acc.extend(loads(summary[col]))"
ExtendAll(summaries, Column(_)) ==
    Flatten([i \in 1..Len(summaries) |-> JsonValue(Column(summaries[i]))])

ErrorsColumn(r) == r.errors_json
ApiCallsColumn(r) == r.api_calls_json
PerfColumn(r) == r.performance_issues_json
PatternsColumn(r) == r.key_patterns_json

SeqRange(s) == {s[i] : i \in 1..Len(s)}

BaseSeverities == {"critical", "high", "medium", "low", "info"}

\* _get_severity_distribution: the five named buckets plus one bucket for
\* every other severity met
GetSeverityDistributionNamedOnly(summaries) ==
    [sev \in BaseSeverities
        |-> Cardinality({i \in 1..Len(summaries) : summaries[i].severity = sev})]
GetSeverityDistribution(summaries) ==
    [sev \in BaseSeverities \cup {summaries[i].severity : i \in 1..Len(summaries)}
        |-> Cardinality({i \in 1..Len(summaries) : summaries[i].severity = sev})]

SummaryTruncation == 100     \* summary['summary'][:100]

Truncate(text, n) == [text EXCEPT !.len = Min(@, n)]

\* sorted(timeline, key=lambda x: x['timestamp'])
TimelineKeyOrdinal(e) == e.chunk_id
TimelineKey(e) == e.timestamp.str

\* _build_timeline
BuildTimeline(summaries) ==
    LET started == SelectSeq(summaries, LAMBDA r : r.timestamp_start # NULL)
        entries == [i \in 1..Len(started) |->
                       [timestamp |-> started[i].timestamp_start,
                        chunk_id |-> started[i].chunk_id,
                        severity |-> started[i].severity,
                        summary |-> Truncate(started[i].summary, SummaryTruncation)]]
    IN  SortBy(entries, TimelineKey)

\* aggregate_summaries (key_patterns is list(set(...)): its order is not
\* determined, so it is kept as the set)
AggregateSummariesInsertionOrder(rows, analysis_id) ==
    LET summaries == SelectSeq(rows, LAMBDA r : r.analysis_id = analysis_id)
    IN  [total_chunks |-> Len(summaries),
         error_patterns |-> ExtendAll(summaries, ErrorsColumn),
         api_endpoints |-> ExtendAll(summaries, ApiCallsColumn),
         performance_issues |-> ExtendAll(summaries, PerfColumn),
         key_patterns |-> SeqRange(ExtendAll(summaries, PatternsColumn)),
         severity_distribution |-> GetSeverityDistribution(summaries),
         timeline |-> BuildTimeline(summaries)]
AggregateSummaries(rows, analysis_id) ==
    LET summaries == GetAllSummaries(rows, analysis_id)
    IN  [total_chunks |-> Len(summaries),
         error_patterns |-> ExtendAll(summaries, ErrorsColumn),
         api_endpoints |-> ExtendAll(summaries, ApiCallsColumn),
         performance_issues |-> ExtendAll(summaries, PerfColumn),
         key_patterns |-> SeqRange(ExtendAll(summaries, PatternsColumn)),
         severity_distribution |-> GetSeverityDistribution(summaries),
         timeline |-> BuildTimeline(summaries)]

\* ------------------------------------------------ server.py: the handlers
AnalysisIds == 1..MaxAnalyses

\* ---- AnalysisContextCache
CacheTtl == 3600     \* analysis_cache = AnalysisContextCache(ttl_seconds=3600)

CacheKeys == AnalysisIds \cup 1..MaxLifecycleAnalyses \cup 1..MaxCacheIds

\* "datetime.now() - timestamp < self.ttl"
FreshInclusive(t, timestamp) == t - timestamp <= CacheTtl
Fresh(t, timestamp) == t - timestamp < CacheTtl

\* get at time t: [cache, data]: the dict after the call and the value
\* returned (NULL for None)
CacheGet(c, id, t) ==
    IF c[id] # NULL
    THEN IF Fresh(t, c[id].timestamp)
         THEN [cache |-> c, data |-> [null |-> FALSE, value |-> c[id].data]]
         ELSE [cache |-> [c EXCEPT ![id] = NULL], data |-> NULL]
    ELSE [cache |-> c, data |-> NULL]

\* set at time t
CacheSet(c, id, data, t) ==
    [c EXCEPT ![id] = [null |-> FALSE, data |-> data, timestamp |-> t]]

\* clear(analysis_id): pop the id; clear() and clear(0): empty the dict
CacheClear(c, id) ==
    IF id # 0 THEN [c EXCEPT ![id] = NULL] ELSE [k \in DOMAIN c |-> NULL]

Calls == 1..MaxCalls

NoModel == ""   \* column ai_model before the first analyze call
NoAnalysis ==
    [status |-> "none", file |-> <<>>, ai_model |-> NoModel,
     analysis_data |-> NULL, completed_at |-> NULL]

\* "SELECT * FROM analyses WHERE id = ?" finds a row: the id was handed out
\* and the row not deleted since (status "deleted" marks the id of a deleted
\* row, which AUTOINCREMENT never hands out again)
RowExists(row) == row.status \notin {"none", "deleted"}

\* "UPDATE analyses SET ... WHERE id = ?": the row after the statement; a
\* statement that matches no row changes nothing
UpdateRow(row, updated) == IF RowExists(row) THEN updated ELSE row

\* the files a user uploads: n lines of SegmentLineLen characters, so that
\* stream_chunks with chunk_size 10000 yields one segment per line; the
\* second line carries no timestamp
UploadFile(n) ==
    [i \in 1..n |-> [len |-> SegmentLineLen,
                     ts |-> IF i = 2 THEN NoTime ELSE Min(i, MaxTs),
                     nl |-> TRUE]]
UploadFiles == {UploadFile(n) : n \in 1..MaxSegments}
RunFiles == {UploadFile(n) : n \in 1..MaxRunSegments}

\* file_path.stat().st_size (one byte per character)
FileSize(lines) == SumLen(lines)

\* the models an AnalyzeRequest names and the key sets save_api_keys stores
AiModels == {"gpt-4o", "claude-3-haiku", "llama-3"}
KeyRequests ==
    {[openai_key |-> TRUE, anthropic_key |-> FALSE, google_key |-> FALSE],
     [openai_key |-> FALSE, anthropic_key |-> FALSE, google_key |-> FALSE]}

\* get_user_api_key: raised is TRUE when it raises an HTTPException (400)
GetUserApiKey(keys, model) ==
    IF keys = NULL THEN [raised |-> TRUE]
    ELSE IF model \in {"gpt-4o", "gpt-4o-mini"}
    THEN [raised |-> ~keys.openai_key]
    ELSE IF model = "claude-3-haiku" THEN [raised |-> ~keys.anthropic_key]
    ELSE IF model = "gemini-1.5-flash" THEN [raised |-> ~keys.google_key]
    ELSE [raised |-> TRUE]

IdleCall ==
    [pc |-> "idle", analysis_id |-> 0, ai_model |-> NoModel, path |-> "none",
     k |-> 0, failed |-> {}, io_faults |-> {}, set_analyzing |-> FALSE,
     malformed |-> FALSE, events |-> <<>>, file |-> <<>>,
     http |-> 0, ret_status |-> "none", ret_data |-> NULL]

\* what a call has done so far, in order: the status it wrote, the
\* summarize_chunk call it issued for a segment, the end of the loop body
\* for that segment (summary stored or exception swallowed), its call of
\* aggregate_summaries
Event(e, chunk_id) == [e |-> e, chunk_id |-> chunk_id]

\* "for chunk in chunker.stream_chunks(file_path)": the k-th segment taken
SegmentAtFromEnd(chunks, k) == chunks[Len(chunks) + 1 - k]
SegmentAt(chunks, k) == chunks[k]

\* the call has returned: its HTTP status and the row as it then is
Returned(call, http, row) ==
    [call EXCEPT !.pc = "done", !.http = http, !.ret_status = row.status,
                 !.ret_data = row.analysis_data]

\* the row of table patterns inserted for one aggregated error
PatternRow(analysis_id, error) ==
    [analysis_id |-> analysis_id,
     pattern_type |-> Get(error, "type", "error"),
     description |-> Get(error, "description", ""),
     severity |-> Get(error, "severity", "medium"),
     frequency |-> Get(error, "frequency", 1)]

RECURSIVE InsertPatterns(_, _, _)
\* "for error in ...: cursor.execute(INSERT INTO patterns ..., error.get(..))":
\* error.get raises AttributeError on an entry that is not a dict; the rows
\* inserted before it stay in the transaction
InsertPatterns(rows, analysis_id, errors) ==
    IF errors = <<>> THEN [raised |-> FALSE, rows |-> rows]
    ELSE IF ~Head(errors).isdict THEN [raised |-> TRUE, rows |-> rows]
    ELSE InsertPatterns(Append(rows, PatternRow(analysis_id, Head(errors))),
                        analysis_id, Tail(errors))

\* the provider answers the chunking path is run against
PipelineOutcomes ==
    {[kind |-> "raise"],
     [kind |-> "text", wrap |-> "prose", payload |-> [type |-> "array"]],
     [kind |-> "text", wrap |-> "fence",
      payload |-> [type |-> "object", obj |-> FullObject]],
     [kind |-> "text", wrap |-> "bare",
      payload |-> [type |-> "object", obj |-> StringEntryObject]]}

\* "except Exception as e: ... continue" around the body of the segment loop
InnerExceptReraise(r) == r
InnerExcept(r) == [r EXCEPT !.raised = FALSE]

\* what the file system and the database do during a step of a handler:
\* nothing special, the file cannot be read (open or read raises OSError),
\* a statement of store_chunk_summary raises sqlite3.Error, a SELECT of
\* aggregate_summaries raises sqlite3.Error
StartFaults == {"ok", "file_read_error"}
LoopFaults == {"ok", "file_read_error", "store_write_error", "store_read_error"}

\* store_chunk_summary on a database that may refuse the write
StoreChunkSummaryIO(rows, analysis_id, summary, io) ==
    IF io = "store_write_error" THEN [raised |-> TRUE, rows |-> rows]
    ELSE StoreChunkSummary(rows, analysis_id, summary)

\* the body of "for chunk in chunker.stream_chunks(file_path)": summarize,
\* store; [raised, rows]
ChunkLoopBody(rows, analysis_id, chunk, outcome, io) ==
    LET s == SummarizeChunk(ProviderOf("gpt-4o-mini"), chunk, outcome)
    IN  InnerExcept(IF s.raised THEN [raised |-> TRUE, rows |-> rows]
                    ELSE StoreChunkSummaryIO(rows, analysis_id, s.value, io))

\* process_with_chunking after the loop: aggregate, UPDATE ... 'completed',
\* the patterns loop, commit; on an exception UPDATE ... 'failed', commit.
\* [row, patterns, raised]
ChunkingFinishStatusOnly(row, rows, pats, analysis_id, t) ==
    [row |-> [row EXCEPT !.status = "completed"], patterns |-> pats,
     raised |-> FALSE]
ChunkingFinish(row, rows, pats, analysis_id, t) ==
    LET aggregated == AggregateSummaries(rows, analysis_id)
        done == [row EXCEPT !.status = "completed",
                            !.completed_at = TimeStr(t),
                            !.analysis_data = JsonDumps(aggregated)]
        ins == InsertPatterns(pats, analysis_id, aggregated.error_patterns)
    IN  IF ins.raised
        THEN [row |-> [done EXCEPT !.status = "failed"], patterns |-> ins.rows,
              raised |-> TRUE]
        ELSE [row |-> done, patterns |-> ins.rows, raised |-> FALSE]

\* the analyzer answers the single-pass path is run against: success with
\* the parsed analysis dict, or success False
SingleAnalyses ==
    {[error_patterns |-> <<ErrDict>>, api_endpoints |-> <<ApiCall>>],
     [error_patterns |-> <<ErrStr>>],
     [raw_analysis |-> "no structure"]}
SingleOutcomes ==
    {[success |-> FALSE]} \cup {[success |-> TRUE, analysis |-> x] : x \in SingleAnalyses}

GitInfo == [detected_repository |-> "none"]

\* analyze_logs after LogAnalyzer.analyze_logs has returned; [row, patterns,
\* http]
SinglePassFinish(row, pats, analysis_id, outcome, t) ==
    IF outcome.success
    THEN LET analysis_data == [git_info |-> GitInfo] @@ outcome.analysis
             ins == IF "error_patterns" \in DOMAIN analysis_data
                    THEN InsertPatterns(pats, analysis_id,
                                        analysis_data.error_patterns)
                    ELSE [raised |-> FALSE, rows |-> pats]
         IN  IF ins.raised
             THEN [row |-> [row EXCEPT !.status = "failed"],
                   patterns |-> ins.rows, http |-> 500]
             ELSE [row |-> [row EXCEPT !.status = "completed",
                                       !.completed_at = TimeStr(t),
                                       !.analysis_data = JsonDumps(analysis_data)],
                   patterns |-> ins.rows, http |-> 200]
    ELSE [row |-> [row EXCEPT !.status = "failed"], patterns |-> pats,
          http |-> 500]

\* ------------------------------------------------------------- actions
\* upload_log_file: INSERT INTO analyses ... 'uploaded'; the id is the next
\* AUTOINCREMENT value
Upload(f) ==
    /\ \E a \in DOMAIN analyses :
         /\ analyses[a].status = "none"
         /\ \A b \in 1..(a - 1) : analyses[b].status # "none"
         /\ analyses' = [analyses EXCEPT ![a] =
                            [NoAnalysis EXCEPT !.status = "uploaded", !.file = f]]
    /\ UNCHANGED <<chunk_summaries, patterns, api_keys, now, calls, last_put>>
    /\ UNCHANGED chunkerVars
    /\ UNCHANGED indexVars
    /\ UNCHANGED cacheVars

\* save_api_keys: the user's row is inserted or updated
SaveApiKeys(request) ==
    /\ api_keys' = request
    /\ api_keys' # api_keys
    /\ UNCHANGED <<analyses, chunk_summaries, patterns, now, calls, last_put>>
    /\ UNCHANGED chunkerVars
    /\ UNCHANGED indexVars
    /\ UNCHANGED cacheVars

\* "if file_size >= CHUNK_THRESHOLD": the chunking pipeline, else single pass
UsesChunkingAbove(file_size) == file_size > CHUNK_THRESHOLD
UsesChunking(file_size) == file_size >= CHUNK_THRESHOLD

\* the status an analyze call writes before it fetches the API key
StartStatusKept(old) == old
StartStatus(old) == "analyzing"

\* analyze_logs from its entry to its first await (the provider call of the
\* first segment or of the single pass) or to its return
AnalyzeCall(c, a, model, io) ==
    /\ calls[c].pc = "idle"
    /\ \A d \in 1..(c - 1) : calls[d].pc # "idle"
    /\ LET row  == analyses[a]
           call == [calls[c] EXCEPT !.analysis_id = a, !.ai_model = model,
                                    !.file = row.file]
           started == [row EXCEPT !.status = StartStatus(row.status),
                                  !.ai_model = model]
           running == [call EXCEPT !.set_analyzing = TRUE,
                                   !.events = Append(@, Event(started.status, 0))]
           chunks == StreamChunks(row.file, PipelineChunkSize)
           path == IF UsesChunking(FileSize(row.file)) THEN "chunk"
                   ELSE "single"
           failed == [started EXCEPT !.status = "failed"]
       IN  IF ~RowExists(row)
           THEN \* 404 Analysis not found
                /\ io = "ok"
                /\ calls' = [calls EXCEPT ![c] = Returned(call, 404, row)]
                /\ UNCHANGED analyses
           ELSE IF GetUserApiKey(api_keys, model).raised
           THEN \* "except HTTPException: conn.close(); raise"
                /\ io = "ok"
                /\ analyses' = [analyses EXCEPT ![a] = started]
                /\ calls' = [calls EXCEPT ![c] = Returned(running, 400, started)]
           ELSE IF io = "file_read_error"
           THEN \* open() raises in stream_chunks or in the single pass: the
                \* "except Exception" of the path: UPDATE ... 'failed'
                /\ analyses' = [analyses EXCEPT ![a] = failed]
                /\ calls' = [calls EXCEPT ![c] =
                       Returned([running EXCEPT !.path = path, !.io_faults = {io},
                                   !.events = Append(@, Event("failed", 0))],
                                500, failed)]
           ELSE /\ analyses' = [analyses EXCEPT ![a] = started]
                /\ IF path = "chunk"
                   THEN calls' = [calls EXCEPT ![c] =
                            [running EXCEPT !.pc = "summarize", !.path = "chunk",
                                !.k = 1,
                                !.events = Append(@, Event("summarize",
                                              SegmentAt(chunks, 1).chunk_id))]]
                   ELSE calls' = [calls EXCEPT ![c] =
                            [running EXCEPT !.pc = "single", !.path = "single"]]
    /\ UNCHANGED <<chunk_summaries, patterns, api_keys, now, last_put>>
    /\ UNCHANGED chunkerVars
    /\ UNCHANGED indexVars
    /\ UNCHANGED cacheVars

\* analyze_logs while the file and the database answer
AnalyzeStart(c, a, model) == AnalyzeCall(c, a, model, "ok")

\* process_with_chunking from the return of the provider call of segment k
\* to the provider call of segment k+1, or to the return of analyze_logs
SummarizeStep(c, outcome, io) ==
    /\ calls[c].pc = "summarize"
    /\ LET call == calls[c]
           a == call.analysis_id
           row == analyses[a]
           chunks == StreamChunks(call.file, PipelineChunkSize)
           chunk == SegmentAt(chunks, call.k)
           body == ChunkLoopBody(chunk_summaries, a, chunk, outcome, io)
           seen == [call EXCEPT
                      !.failed = IF SummarizeFailed(ProviderOf("gpt-4o-mini"), outcome)
                                 THEN @ \cup {chunk.chunk_id} ELSE @,
                      !.io_faults = IF io = "ok" THEN @ ELSE @ \cup {io},
                      !.events = Append(@, Event("handled", chunk.chunk_id))]
           fin == ChunkingFinish(row, body.rows, patterns, a, now + 1)
           finished == UpdateRow(row, fin.row)
           \* the exception reaches the outer "except Exception": the
           \* per-segment except let it through, the generator could not
           \* read the next segment, or aggregate_summaries raised
           fatal == \/ body.raised
                    \/ io = "file_read_error"
                    \/ io = "store_read_error"
       IN  /\ io = "store_write_error" => SubscriptedKeys \subseteq
                    DOMAIN SummarizeChunk(ProviderOf("gpt-4o-mini"), chunk, outcome).value
           /\ io = "file_read_error" => call.k < Len(chunks)
           /\ io = "store_read_error" => call.k = Len(chunks)
           /\ chunk_summaries' = body.rows
           /\ IF fatal
              THEN \* UPDATE ... 'failed'; commit; HTTPException(500)
                   /\ analyses' = [analyses EXCEPT ![a] =
                          UpdateRow(row, [row EXCEPT !.status = "failed"])]
                   /\ calls' = [calls EXCEPT ![c] =
                          Returned([seen EXCEPT !.events =
                                      (IF io = "store_read_error"
                                       THEN Append(@, Event("aggregate", 0))
                                       ELSE @) \o <<Event("failed", 0)>>],
                                   500, analyses'[a])]
                   /\ UNCHANGED <<patterns, now>>
              ELSE IF call.k < Len(chunks)
              THEN /\ calls' = [calls EXCEPT ![c] =
                          [seen EXCEPT !.k = @ + 1,
                               !.events = Append(@, Event("summarize",
                                    SegmentAt(chunks, call.k + 1).chunk_id))]]
                   /\ UNCHANGED <<analyses, patterns, now>>
              ELSE /\ analyses' = [analyses EXCEPT ![a] = finished]
                   /\ patterns' = fin.patterns
                   /\ now' = now + 1
                   /\ calls' = [calls EXCEPT ![c] =
                          Returned([seen EXCEPT !.malformed = fin.raised,
                                      !.events = @ \o <<Event("aggregate", 0),
                                                   Event(fin.row.status, 0)>>],
                                   IF fin.raised THEN 500 ELSE 200, finished)]
    /\ UNCHANGED <<api_keys, last_put>>
    /\ UNCHANGED chunkerVars
    /\ UNCHANGED indexVars
    /\ UNCHANGED cacheVars

\* the same while the file and the database answer
SummarizeReturn(c, outcome) == SummarizeStep(c, outcome, "ok")

\* analyze_logs (single pass) from the return of LogAnalyzer.analyze_logs to
\* its own return
SinglePassReturn(c, outcome) ==
    /\ calls[c].pc = "single"
    /\ LET call == calls[c]
           a == call.analysis_id
           fin == SinglePassFinish(analyses[a], patterns, a, outcome, now + 1)
           finished == UpdateRow(analyses[a], fin.row)
       IN  /\ analyses' = [analyses EXCEPT ![a] = finished]
           /\ patterns' = fin.patterns
           /\ now' = now + 1
           /\ calls' = [calls EXCEPT ![c] = Returned(call, fin.http, finished)]
    /\ UNCHANGED <<chunk_summaries, api_keys, last_put>>
    /\ UNCHANGED chunkerVars
    /\ UNCHANGED indexVars
    /\ UNCHANGED cacheVars

\* generate_tests: "complete_analysis = json.loads(analysis['analysis_data'])"
\* when the column is set, else {}
CompleteAnalysis(analysis_data) ==
    IF analysis_data # NULL THEN JsonValue(analysis_data) ELSE <<>>

\* generate_tests: the analysis_data dict it prepares when the cache holds
\* nothing (the file name and the log excerpts, which no analysis changes,
\* are left out)
AnalysisContext(row, pats, analysis_id) ==
    LET complete_analysis == CompleteAnalysis(row.analysis_data)
    IN  [patterns |-> SelectSeq(pats, LAMBDA r : r.analysis_id = analysis_id),
         error_patterns |-> Get(complete_analysis, "error_patterns", <<>>),
         api_endpoints |-> Get(complete_analysis, "api_endpoints", <<>>),
         performance_issues |-> Get(complete_analysis, "performance_issues", <<>>)]

GenCall(analysis_id, http, read, context) ==
    [null |-> FALSE, analysis_id |-> analysis_id, http |-> http,
     read |-> read, context |-> context]

\* generate_tests from its entry to the call of TestGenerator.generate_tests
\* (what follows inserts into test_cases only)
GenerateTests(a) ==
    /\ LET row == analyses[a]
           got == CacheGet(cache, a, clock)
           analysis_data == IF got.data # NULL THEN got.data.value
                            ELSE AnalysisContext(row, patterns, a)
       IN  IF ~RowExists(row)
           THEN \* 404 Analysis not found
                /\ gen_call' = GenCall(a, 404, NULL, NULL)
                /\ UNCHANGED <<cache, cache_sets>>
           ELSE IF row.status # "completed"
           THEN \* 400 Analysis not completed yet
                /\ gen_call' = GenCall(a, 400, NULL, NULL)
                /\ UNCHANGED <<cache, cache_sets>>
           ELSE /\ IF got.data # NULL
                   THEN /\ cache' = got.cache
                        /\ UNCHANGED cache_sets
                   ELSE /\ cache' = CacheSet(got.cache, a, analysis_data, clock)
                        /\ cache_sets' = [cache_sets EXCEPT ![a] = cache'[a]]
                /\ IF GetUserApiKey(api_keys, row.ai_model).raised
                   THEN gen_call' = GenCall(a, 400, row.analysis_data, NULL)
                   ELSE gen_call' = GenCall(a, 200, row.analysis_data,
                                       [null |-> FALSE, value |-> analysis_data])
    /\ gen_call' # gen_call
    /\ UNCHANGED <<clock, cache_call>>
    /\ UNCHANGED chunkerVars
    /\ UNCHANGED pipelineVars
    /\ UNCHANGED indexVars

\* "DELETE FROM chunk_summaries WHERE analysis_id = ?" for every id of ids
DeleteChunkSummariesOfAll(rows, ids) == <<>>
DeleteChunkSummaries(rows, ids) ==
    SelectSeq(rows, LAMBDA r : r.analysis_id \notin ids)

\* the deletes of delete_analysis and delete_all_analyses for the rows ids
DeleteRows(ids) ==
    /\ patterns' = SelectSeq(patterns, LAMBDA r : r.analysis_id \notin ids)
    /\ chunk_summaries' = DeleteChunkSummaries(chunk_summaries, ids)
    /\ analyses' = [a \in DOMAIN analyses |->
                       IF a \in ids THEN [NoAnalysis EXCEPT !.status = "deleted"]
                       ELSE analyses[a]]
    /\ UNCHANGED <<api_keys, now, calls, last_put>>
    /\ UNCHANGED chunkerVars
    /\ UNCHANGED indexVars
    /\ UNCHANGED cacheVars

\* delete_analysis by the owner (404, and nothing deleted, without a row)
DeleteAnalysis(a) ==
    /\ RowExists(analyses[a])
    /\ DeleteRows({a})

\* delete_all_analyses (nothing to delete without a row)
DeleteAllAnalyses ==
    /\ \E a \in DOMAIN analyses : RowExists(analyses[a])
    /\ DeleteRows({a \in DOMAIN analyses : RowExists(analyses[a])})

ChunkerIdle ==
    /\ ck_file = <<>>
    /\ ck_chunk_size = 1
    /\ ck_window = 0
    /\ ck_strategy = "none"
    /\ ck_chunks = <<>>
    /\ sm_chunk = NULL
    /\ sm_outcome = NULL
    /\ sm_result = NULL

PipelineIdleOn(ids) ==
    /\ analyses = [a \in ids |-> NoAnalysis]
    /\ chunk_summaries = <<>>
    /\ patterns = <<>>
    /\ api_keys = NULL
    /\ now = 0
    /\ calls = [c \in Calls |-> IdleCall]
    /\ last_put = NULL
    /\ ix_call = NULL
    /\ ix_puts = <<>>
    /\ cache = [id \in CacheKeys |-> NULL]
    /\ clock = 0
    /\ cache_call = NULL
    /\ cache_sets = [id \in CacheKeys |-> NULL]
    /\ gen_call = NULL

PipelineIdle == PipelineIdleOn(AnalysisIds)

\* the server after init_db on an empty database
Init == ChunkerIdle /\ PipelineIdle

\* ---- the chunk producer on its own, on every small file
BaseLines == [len : 1..MaxLineLen, ts : 0..MaxTs]

\* a file of the given lines: every line but the last ends with "\n", the
\* last one does when eofNewline
MkFile(f, eofNewline) ==
    [i \in 1..Len(f) |-> [len |-> f[i].len, ts |-> f[i].ts,
                          nl |-> (i < Len(f)) \/ eofNewline]]

ChunkerFiles ==
    {MkFile(f, e) : f \in UNION {[1..n -> BaseLines] : n \in 0..MaxLines},
                    e \in BOOLEAN}

InitChunker ==
    /\ PipelineIdle
    /\ ck_file \in ChunkerFiles
    /\ ck_chunk_size \in 1..MaxChunkSize
    /\ ck_window \in 0..MaxWindow
    /\ ck_strategy = "none"
    /\ ck_chunks = <<>>
    /\ sm_chunk = NULL
    /\ sm_outcome = NULL
    /\ sm_result = NULL

\* list(LogChunker(ck_chunk_size).stream_chunks(ck_file))
RunStreamChunks ==
    /\ ck_strategy = "none"
    /\ ck_strategy' = "size"
    /\ ck_chunks' = StreamChunks(ck_file, ck_chunk_size)
    /\ UNCHANGED <<ck_file, ck_chunk_size, ck_window, sm_chunk, sm_outcome, sm_result>>
    /\ UNCHANGED pipelineVars
    /\ UNCHANGED indexVars
    /\ UNCHANGED cacheVars

\* list(LogChunker().smart_chunk_by_time(ck_file, ck_window))
RunSmartChunkByTime ==
    /\ ck_strategy = "none"
    /\ ck_strategy' = "time"
    /\ ck_chunks' = SmartChunkByTime(ck_file, ck_window)
    /\ UNCHANGED <<ck_file, ck_chunk_size, ck_window, sm_chunk, sm_outcome, sm_result>>
    /\ UNCHANGED pipelineVars
    /\ UNCHANGED indexVars
    /\ UNCHANGED cacheVars

NextChunker == RunStreamChunks \/ RunSmartChunkByTime

SpecChunker == InitChunker /\ [][NextChunker]_vars

\* ---- the chunk producer on segments longer than the scan of
\* _extract_time_range: files of one-character lines, at most two of which
\* carry a timestamp, read as a single segment
LongFile(n, stamped, eofNewline) ==
    [i \in 1..n |->
        [len |-> 1,
         ts |-> IF i \notin stamped THEN NoTime
                ELSE IF \A j \in stamped : i <= j THEN 1 ELSE 2,
         nl |-> (i < n) \/ eofNewline]]

LongFiles ==
    {LongFile(n, {p, q}, e) :
        n \in TimeScanLines..(TimeScanLines + LongFileExtra),
        p \in 0..(TimeScanLines + LongFileExtra),
        q \in 0..(TimeScanLines + LongFileExtra),
        e \in BOOLEAN}

InitTimeRange ==
    /\ PipelineIdle
    /\ ck_file \in LongFiles
    /\ ck_chunk_size = Len(ck_file)
    /\ ck_window = MaxWindow
    /\ ck_strategy = "none"
    /\ ck_chunks = <<>>
    /\ sm_chunk = NULL
    /\ sm_outcome = NULL
    /\ sm_result = NULL

SpecTimeRange == InitTimeRange /\ [][NextChunker]_vars

\* ---- the summarizer on its own, on the segments of the upload files
SummarizerChunks ==
    UNION {SeqRange(StreamChunks(f, PipelineChunkSize))
           \cup SeqRange(SmartChunkByTime(f, 0)) : f \in RunFiles}

\* self.provider: the three __init__ can set, and one it cannot
SummarizerProviders == Providers \cup {"other"}

InitSummarizer ==
    /\ PipelineIdle
    /\ ck_file = <<>>
    /\ ck_chunk_size = 1
    /\ ck_window = 0
    /\ ck_strategy = "none"
    /\ ck_chunks = <<>>
    /\ sm_chunk \in SummarizerChunks
    /\ sm_outcome = NULL
    /\ sm_result = NULL

\* await summarizer.summarize_chunk(sm_chunk), the provider call ending as
\* outcome says
Summarize(provider, outcome) ==
    /\ sm_outcome = NULL
    /\ sm_outcome' = [provider |-> provider, outcome |-> outcome]
    /\ sm_result' = SummarizeChunk(provider, sm_chunk, outcome)
    /\ UNCHANGED <<ck_file, ck_chunk_size, ck_window, ck_strategy, ck_chunks, sm_chunk>>
    /\ UNCHANGED pipelineVars
    /\ UNCHANGED indexVars
    /\ UNCHANGED cacheVars

NextSummarizer ==
    \E provider \in SummarizerProviders, outcome \in ProviderOutcomes :
        Summarize(provider, outcome)

SpecSummarizer == InitSummarizer /\ [][NextSummarizer]_vars

\* ---- the summary store on its own
PutAnalysisIds == 1..MaxPutAnalyses

\* the summaries summarize_chunk returns for the segments of an upload
PutSummaries ==
    {SummarizeChunk("openai", ch, o).value :
        ch \in SeqRange(StreamChunks(UploadFile(MaxSegments), PipelineChunkSize)),
        o \in PipelineOutcomes}

\* chunk_index.store_chunk_summary(analysis_id, summary)
StorePut(analysis_id, summary) ==
    /\ Len(chunk_summaries) < MaxPuts
    /\ LET r == StoreChunkSummary(chunk_summaries, analysis_id, summary)
       IN  /\ chunk_summaries' = r.rows
           /\ last_put' = [analysis_id |-> analysis_id, summary |-> summary,
                           raised |-> r.raised]
    /\ UNCHANGED <<analyses, patterns, api_keys, now, calls>>
    /\ UNCHANGED chunkerVars
    /\ UNCHANGED indexVars
    /\ UNCHANGED cacheVars

NextStore ==
    \E analysis_id \in PutAnalysisIds, summary \in PutSummaries :
        StorePut(analysis_id, summary)

SpecStore == Init /\ [][NextStore]_vars

\* ---- the summary store and its reads
\* the summary summarize_chunk returns for a segment when the provider
\* answered with the object obj
IndexSummary(chunk_id, timestamp_range, obj) ==
    [chunk_id |-> chunk_id,
     line_range |-> <<10 * chunk_id, 10 * chunk_id + 10>>,
     timestamp_range |-> timestamp_range] @@ obj

BusyObject ==
    [summary |-> Text("login errors", 120), errors_found |-> <<ErrDict, ErrDict>>,
     api_calls |-> <<ApiCall>>, key_patterns |-> <<"retry", "login">>,
     severity |-> "medium"]
DegradedObject ==
    [summary |-> Text("Error summarizing chunk", 40), errors_found |-> <<>>,
     api_calls |-> <<>>, performance_issues |-> <<>>, key_patterns |-> <<>>,
     severity |-> "unknown"]
OddObject ==
    [summary |-> Text("odd", 101), performance_issues |-> <<PerfIssue>>,
     key_patterns |-> <<"login">>, severity |-> "severe"]

\* summaries of segments 0..2: two for ordinal 1, start times that run
\* against the ordinals, one without a start time, one of severity
\* 'unknown' and one of a severity the prompt does not name
IndexSummaries ==
    {IndexSummary(0, <<2, 2>>, StringEntryObject),
     IndexSummary(1, <<1, 2>>, BusyObject),
     IndexSummary(1, <<NoTime, NoTime>>, DegradedObject),
     IndexSummary(2, <<1, 1>>, OddObject)}

\* two analyses share the table
IndexAnalysisIds == {1, 2}

\* the min_severity values a caller passes
Thresholds == BaseSeverities \cup {"unknown"}

IsCall(op) == ix_call # NULL /\ ix_call.op = op

\* chunk_index.store_chunk_summary(analysis_id, summary)
IndexPut(analysis_id, summary) ==
    /\ Len(chunk_summaries) < MaxIndexPuts
    /\ chunk_summaries' = StoreChunkSummary(chunk_summaries, analysis_id, summary).rows
    /\ ix_call' = [op |-> "store"]
    /\ ix_puts' = Append(ix_puts, [analysis_id |-> analysis_id,
                                   summary |-> summary])
    /\ UNCHANGED <<analyses, patterns, api_keys, now, calls, last_put>>
    /\ UNCHANGED chunkerVars
    /\ UNCHANGED cacheVars

\* chunk_index.get_all_summaries(analysis_id)
IndexGetAll(analysis_id) ==
    /\ ix_call' = [op |-> "get_all", analysis_id |-> analysis_id,
                   rows |-> GetAllSummaries(chunk_summaries, analysis_id)]
    /\ chunk_summaries' = AfterSelect(chunk_summaries)
    /\ UNCHANGED ix_puts
    /\ UNCHANGED <<analyses, patterns, api_keys, now, calls, last_put>>
    /\ UNCHANGED chunkerVars
    /\ UNCHANGED cacheVars

\* chunk_index.get_summaries_by_severity(analysis_id, min_severity)
IndexBySeverity(analysis_id, min_severity) ==
    /\ ix_call' = [op |-> "by_severity", analysis_id |-> analysis_id,
                   min_severity |-> min_severity,
                   rows |-> GetSummariesBySeverity(chunk_summaries, analysis_id,
                                                   min_severity)]
    /\ chunk_summaries' = AfterSelect(chunk_summaries)
    /\ UNCHANGED ix_puts
    /\ UNCHANGED <<analyses, patterns, api_keys, now, calls, last_put>>
    /\ UNCHANGED chunkerVars
    /\ UNCHANGED cacheVars

\* chunk_index.aggregate_summaries(analysis_id); repeat counts the calls
\* made in a row for the same analysis
IndexAggregate(analysis_id) ==
    LET repeat == IF IsCall("aggregate") /\ ix_call.analysis_id = analysis_id
                  THEN ix_call.repeat + 1 ELSE 1
    IN  /\ repeat <= MaxAggregateCalls
        /\ ix_call' = [op |-> "aggregate", analysis_id |-> analysis_id,
                       repeat |-> repeat,
                       agg |-> AggregateSummaries(chunk_summaries, analysis_id)]
        /\ chunk_summaries' = AfterSelect(chunk_summaries)
        /\ UNCHANGED ix_puts
        /\ UNCHANGED <<analyses, patterns, api_keys, now, calls, last_put>>
        /\ UNCHANGED chunkerVars
        /\ UNCHANGED cacheVars

NextIndex ==
    \/ \E analysis_id \in IndexAnalysisIds, summary \in IndexSummaries :
          IndexPut(analysis_id, summary)
    \/ \E analysis_id \in IndexAnalysisIds : IndexGetAll(analysis_id)
    \/ \E analysis_id \in IndexAnalysisIds, min_severity \in Thresholds :
          IndexBySeverity(analysis_id, min_severity)
    \/ \E analysis_id \in IndexAnalysisIds : IndexAggregate(analysis_id)

SpecIndex == Init /\ [][NextIndex]_vars

\* ---- an AnalysisContextCache on its own: set, get and clear while the
\* wall clock advances by half a ttl at a time

CacheValues ==
    {[patterns |-> <<>>, error_patterns |-> e, api_endpoints |-> <<>>,
      performance_issues |-> <<>>] : e \in {<<>>, <<ErrDict>>}}

CacheCall(op, id, result) ==
    [null |-> FALSE, op |-> op, id |-> id, result |-> result, at |-> clock]

\* analysis_cache.set(id, value)
CacheSetCall(id, value) ==
    /\ cache' = CacheSet(cache, id, value, clock)
    /\ cache_sets' = [cache_sets EXCEPT ![id] =
                         [null |-> FALSE, data |-> value, timestamp |-> clock]]
    /\ cache_call' = CacheCall("set", id, NULL)
    /\ UNCHANGED <<clock, gen_call>>
    /\ UNCHANGED chunkerVars
    /\ UNCHANGED pipelineVars
    /\ UNCHANGED indexVars

\* analysis_cache.get(id)
CacheGetCall(id) ==
    /\ LET got == CacheGet(cache, id, clock)
       IN  /\ cache' = got.cache
           /\ cache_call' = CacheCall("get", id, got.data)
    /\ UNCHANGED <<clock, cache_sets, gen_call>>
    /\ UNCHANGED chunkerVars
    /\ UNCHANGED pipelineVars
    /\ UNCHANGED indexVars

\* analysis_cache.clear(id); id 0 stands for clear() as well
CacheClearCall(id) ==
    /\ cache' = CacheClear(cache, id)
    /\ cache_sets' = IF id # 0 THEN [cache_sets EXCEPT ![id] = NULL]
                     ELSE [k \in CacheKeys |-> NULL]
    /\ cache_call' = CacheCall("clear", id, NULL)
    /\ UNCHANGED <<clock, gen_call>>
    /\ UNCHANGED chunkerVars
    /\ UNCHANGED pipelineVars
    /\ UNCHANGED indexVars

\* time passes
Tick ==
    /\ clock < MaxTicks * (CacheTtl \div 2)
    /\ clock' = clock + (CacheTtl \div 2)
    /\ UNCHANGED <<cache, cache_call, cache_sets, gen_call>>
    /\ UNCHANGED chunkerVars
    /\ UNCHANGED pipelineVars
    /\ UNCHANGED indexVars

NextCache ==
    \/ \E id \in 1..MaxCacheIds, value \in CacheValues : CacheSetCall(id, value)
    \/ \E id \in 1..MaxCacheIds : CacheGetCall(id)
    \/ \E id \in 0..MaxCacheIds : CacheClearCall(id)
    \/ Tick

SpecCache == Init /\ [][NextCache]_vars

\* ---- one analyze call on files of up to MaxRunSegments segments
NextRun ==
    \/ \E f \in RunFiles : Upload(f)
    \/ \E request \in KeyRequests : SaveApiKeys(request)
    \/ \E a \in AnalysisIds, model \in AiModels : AnalyzeStart(1, a, model)
    \/ \E outcome \in PipelineOutcomes : SummarizeReturn(1, outcome)
    \/ \E outcome \in SingleOutcomes : SinglePassReturn(1, outcome)

SpecRun == Init /\ [][NextRun]_vars

\* ---- one analyze call on files whose size is at the routing threshold
\* two lines that add up to CHUNK_THRESHOLD + d bytes
BoundaryFile(d) ==
    <<[len |-> CHUNK_THRESHOLD \div 2, ts |-> 1, nl |-> TRUE],
      [len |-> CHUNK_THRESHOLD - (CHUNK_THRESHOLD \div 2) + d, ts |-> 2,
       nl |-> TRUE]>>
BoundaryFiles == {BoundaryFile(d) : d \in {0 - 1, 0, 1}}

NextRouting ==
    \/ \E f \in BoundaryFiles : Upload(f)
    \/ \E request \in KeyRequests : SaveApiKeys(request)
    \/ \E a \in AnalysisIds, model \in AiModels : AnalyzeStart(1, a, model)
    \/ \E outcome \in PipelineOutcomes : SummarizeReturn(1, outcome)
    \/ \E outcome \in SingleOutcomes : SinglePassReturn(1, outcome)

SpecRouting == Init /\ [][NextRouting]_vars

\* ---- the life of analyses: upload, analyze, generate tests, delete
InitLifecycle == ChunkerIdle /\ PipelineIdleOn(1..MaxLifecycleAnalyses)

\* the provider fails, or answers with a well-formed summary
LifecycleOutcomes ==
    {o \in PipelineOutcomes :
        o.kind = "text" => (o.payload.type = "object" /\ o.payload.obj = FullObject)}

NextLifecycle ==
    \/ Upload(UploadFile(MaxSegments))
    \/ \E request \in KeyRequests : SaveApiKeys(request)
    \/ \E c \in Calls, a \in 1..MaxLifecycleAnalyses : AnalyzeStart(c, a, "gpt-4o")
    \/ \E c \in Calls, outcome \in LifecycleOutcomes : SummarizeReturn(c, outcome)
    \/ \E a \in 1..MaxLifecycleAnalyses : GenerateTests(a)
    \/ \E a \in 1..MaxLifecycleAnalyses : DeleteAnalysis(a)
    \/ DeleteAllAnalyses

SpecLifecycle == InitLifecycle /\ [][NextLifecycle]_vars

\* ---- one analyze call while the file system and the database may fail
NextFaults ==
    \/ \E f \in RunFiles : Upload(f)
    \/ \E request \in KeyRequests : SaveApiKeys(request)
    \/ \E a \in AnalysisIds, model \in AiModels, io \in StartFaults :
          AnalyzeCall(1, a, model, io)
    \/ \E outcome \in PipelineOutcomes, io \in LoopFaults :
          SummarizeStep(1, outcome, io)
    \/ \E outcome \in SingleOutcomes : SinglePassReturn(1, outcome)

SpecFaults == Init /\ [][NextFaults]_vars

\* ---- the server: uploads and overlapping analyze calls
Next ==
    \/ \E f \in UploadFiles : Upload(f)
    \/ \E request \in KeyRequests : SaveApiKeys(request)
    \/ \E c \in Calls, a \in AnalysisIds, model \in AiModels : AnalyzeStart(c, a, model)
    \/ \E c \in Calls, outcome \in PipelineOutcomes : SummarizeReturn(c, outcome)
    \/ \E c \in Calls, outcome \in SingleOutcomes : SinglePassReturn(c, outcome)

Spec == Init /\ [][Next]_vars

\* ================================================================ claims
\* the segments stream_chunks yields for the file of analysis a
SegmentsOf(a) == StreamChunks(analyses[a].file, PipelineChunkSize)

ChunkRunDone(c) == calls[c].pc = "done" /\ calls[c].path = "chunk"

\* C1 (SpecRun): no silent gaps.  When a first run of the chunking path over
\* a file of N segments has finished, the store holds exactly N summaries of
\* the analysis, one per ordinal 0..N-1; a segment whose summarization
\* failed is stored with severity 'unknown' and empty lists, and
\* aggregate_summaries reports total_chunks = N with every failed segment in
\* the 'unknown' bucket.
C1_NoSilentGaps ==
    \A c \in Calls :
        ChunkRunDone(c) =>
            LET a == calls[c].analysis_id
                N == Len(SegmentsOf(a))
                stored == GetAllSummaries(chunk_summaries, a)
                agg == AggregateSummaries(chunk_summaries, a)
            IN  /\ Len(stored) = N
                /\ \A i \in 1..N :
                     /\ stored[i].chunk_id = i - 1
                     /\ (i - 1) \in calls[c].failed =>
                          /\ stored[i].severity = "unknown"
                          /\ JsonValue(stored[i].errors_json) = <<>>
                          /\ JsonValue(stored[i].api_calls_json) = <<>>
                          /\ JsonValue(stored[i].performance_issues_json) = <<>>
                          /\ JsonValue(stored[i].key_patterns_json) = <<>>
                /\ agg.total_chunks = N
                /\ Get(agg.severity_distribution, "unknown", 0)
                     = Cardinality(calls[c].failed)

\* C2 (Spec): an analyze_logs call that has set the status to 'analyzing'
\* leaves the analysis 'completed' or 'failed' when it returns, with or
\* without an error.
C2_NeverLeftAnalyzing ==
    \A c \in Calls :
        (calls[c].pc = "done" /\ calls[c].set_analyzing)
            => calls[c].ret_status \in {"completed", "failed"}

\* C3 (Spec): the status of an analysis changes only along uploaded ->
\* analyzing, analyzing -> completed and analyzing -> failed; 'completed'
\* and 'failed' are terminal.
StatusTransitions ==
    {<<"none", "uploaded">>, <<"uploaded", "analyzing">>,
     <<"analyzing", "completed">>, <<"analyzing", "failed">>}

C3_StatusStateMachine ==
    [][\A a \in AnalysisIds :
          \/ analyses'[a].status = analyses[a].status
          \/ <<analyses[a].status, analyses'[a].status>> \in StatusTransitions]_vars

\* C3 as amended (Spec): analyze_logs does not look at the current status,
\* so besides the three transitions above a new analyze call moves
\* 'completed' or 'failed' back to 'analyzing', and an overlapping call that
\* returns later overwrites 'completed' by 'failed' or 'failed' by
\* 'completed'.  No analysis returns to 'uploaded', and none reaches
\* 'completed' or 'failed' straight from 'uploaded'.
RerunTransitions ==
    {<<"completed", "analyzing">>, <<"failed", "analyzing">>,
     <<"completed", "failed">>, <<"failed", "completed">>}

C3_StatusWithReruns ==
    [][\A a \in AnalysisIds :
          \/ analyses'[a].status = analyses[a].status
          \/ <<analyses[a].status, analyses'[a].status>>
                \in StatusTransitions \cup RerunTransitions]_vars

\* a second analyze call is running on an analysis that an earlier call
\* left 'completed'
C3_Witness ==
    \E c \in Calls, d \in Calls :
        /\ calls[c].pc = "done"
        /\ calls[c].ret_status = "completed"
        /\ calls[d].pc \in {"summarize", "single"}
        /\ calls[d].analysis_id = calls[c].analysis_id
        /\ analyses[calls[d].analysis_id].status = "analyzing"

C5_IdempotentPut ==
    (last_put # NULL /\ ~last_put.raised) =>
        LET same == SelectSeq(chunk_summaries,
                        LAMBDA r : /\ r.analysis_id = last_put.analysis_id
                                   /\ r.chunk_id = last_put.summary.chunk_id)
        IN  /\ Len(same) = 1
            /\ same[1] = SummaryRow(last_put.analysis_id, last_put.summary)

\* the analyze calls made for analysis a
CallsOf(a) == {c \in Calls : calls[c].pc # "idle" /\ calls[c].analysis_id = a}

\* C6 (Spec): the aggregated analysis is overwritten, not accumulated.  Once
\* two or more runs of the chunking path on one analysis have all returned
\* (none with a failed segment, which is C1's case), the store holds one row
\* per ordinal 0..N-1 of the analysis and the persisted result has
\* total_chunks = N and no list longer than one run makes it.
C6_DerivedViewOverwritten ==
    \A a \in AnalysisIds :
        (/\ Cardinality(CallsOf(a)) >= 2
         /\ \A c \in CallsOf(a) : ChunkRunDone(c) /\ calls[c].failed = {})
        =>  LET N == Len(SegmentsOf(a))
                stored == GetAllSummaries(chunk_summaries, a)
                data == JsonValue(analyses[a].analysis_data)
            IN  /\ Len(stored) = N
                /\ \A i \in 1..N : stored[i].chunk_id = i - 1
                /\ data.total_chunks = N
                /\ Len(data.error_patterns) <= N
                /\ Len(data.api_endpoints) <= N
                /\ Len(data.performance_issues) <= N

\* C7 (SpecChunker): coverage.  Under both strategies the contents of the
\* emitted segments, concatenated in emission order, are the lines of the
\* file in their order; no segment is empty and a remainder below the
\* threshold is emitted as the final segment.
C7_Coverage ==
    ck_strategy # "none" =>
        /\ Concat(ck_chunks) = ck_file
        /\ \A i \in 1..Len(ck_chunks) : ck_chunks[i].content # <<>>

\* the size-based producer has flushed a remainder smaller than chunk_size
C7_Witness ==
    /\ ck_strategy = "size"
    /\ Len(ck_chunks) >= 2
    /\ ck_chunks[Len(ck_chunks)].size < ck_chunk_size

\* C8 (SpecChunker): ordinal contiguity.  Under both strategies the
\* chunk_id of the i-th emitted segment is i - 1.
C8_OrdinalContiguity ==
    ck_strategy # "none" =>
        \A i \in 1..Len(ck_chunks) : ck_chunks[i].chunk_id = i - 1

C8_Witness ==
    /\ ck_strategy = "size"
    /\ Len(ck_chunks) >= 3

\* C9 as claimed (SpecChunker): every non-final segment of stream_chunks has
\* size equal to chunk_size, a segment is larger than chunk_size only when
\* one of its lines alone is longer than chunk_size, and only the final
\* segment may be smaller than chunk_size.
C9_SegmentSizeExact ==
    ck_strategy = "size" =>
        \A i \in 1..Len(ck_chunks) :
            LET ch == ck_chunks[i]
            IN  /\ i < Len(ck_chunks) => ch.size = ck_chunk_size
                /\ ch.size > ck_chunk_size =>
                     \E j \in 1..Len(ch.content) : ch.content[j].len > ck_chunk_size
                /\ ch.size < ck_chunk_size => i = Len(ck_chunks)

\* C9 as amended (SpecChunker): for chunk_size >= 1, every non-final
\* segment of stream_chunks has size at least chunk_size; a segment is
\* closed by the first line that brings it to chunk_size, so without its
\* last line it is smaller than chunk_size; only the final segment may be
\* smaller than chunk_size; size is the total length of the lines held.
C9_SegmentSizeAtLeast ==
    ck_strategy = "size" =>
        \A i \in 1..Len(ck_chunks) :
            LET ch == ck_chunks[i]
            IN  /\ ch.size = SumLen(ch.content)
                /\ i < Len(ck_chunks) => ch.size >= ck_chunk_size
                /\ ch.size - ch.content[Len(ch.content)].len < ck_chunk_size
                /\ ch.size < ck_chunk_size => i = Len(ck_chunks)

\* a non-final segment larger than chunk_size none of whose lines is
C9_Witness ==
    /\ ck_strategy = "size"
    /\ \E i \in 1..(Len(ck_chunks) - 1) :
         /\ ck_chunks[i].size > ck_chunk_size
         /\ \A j \in 1..Len(ck_chunks[i].content) :
              ck_chunks[i].content[j].len <= ck_chunk_size

\* C10 (SpecSummarizer): summarize_chunk never raises.  Whatever the
\* provider call does, the call returns one summary carrying the segment's
\* ordinal and line range; when the call did not end in a parsed object the
\* summary has severity 'unknown', a synopsis naming the error and empty
\* errors, api-calls, performance and key-pattern lists.
C10_SummarizerNeverRaises ==
    sm_outcome # NULL =>
        /\ ~sm_result.raised
        /\ sm_result.value.chunk_id = sm_chunk.chunk_id
        /\ sm_result.value.line_range = <<sm_chunk.start_line, sm_chunk.end_line>>
        /\ SummarizeFailed(sm_outcome.provider, sm_outcome.outcome) =>
             /\ sm_result.value.severity = "unknown"
             /\ sm_result.value.summary.text = "Error summarizing chunk"
             /\ sm_result.value.errors_found = <<>>
             /\ sm_result.value.api_calls = <<>>
             /\ sm_result.value.performance_issues = <<>>
             /\ sm_result.value.key_patterns = <<>>

\* a response that parses, but to a list: the item assignment raises
C10_Witness ==
    /\ sm_outcome # NULL
    /\ sm_outcome.provider \in Providers
    /\ sm_outcome.outcome.kind = "text"
    /\ sm_outcome.outcome.wrap = "bare"
    /\ sm_outcome.outcome.payload.type = "array"
    /\ ~sm_result.raised
    /\ sm_result.value.severity = "unknown"

\* C11 (SpecFaults): store and file I/O failures are fatal to the chunking
\* path.  A run during which the file could not be read, a statement of
\* store_chunk_summary failed or a read of aggregate_summaries failed ends
\* with the analysis 'failed' and the error returned (HTTP 500); it never
\* ends 'completed' with the segment skipped.
C11_IoFailureFatal ==
    \A c \in Calls :
        (ChunkRunDone(c) /\ calls[c].io_faults # {}) =>
            /\ calls[c].ret_status = "failed"
            /\ calls[c].http = 500

\* C12 (Spec): in every committed state an analysis whose status is
\* 'completed' has a persisted result (analysis_data is not NULL) and a
\* completion timestamp: both paths write the three columns in one
\* transaction.
C12_CompletedHasResult ==
    \A a \in AnalysisIds :
        analyses[a].status = "completed" =>
            /\ analyses[a].analysis_data # NULL
            /\ analyses[a].completed_at # NULL

\* an analysis completed by the chunking path although the summarizer
\* failed on every segment
C12_Witness ==
    \E c \in Calls :
        /\ ChunkRunDone(c)
        /\ analyses[calls[c].analysis_id].status = "completed"
        /\ calls[c].failed = {i - 1 : i \in 1..Len(SegmentsOf(calls[c].analysis_id))}

\* the rows of the table that belong to analysis a, as positions
RowsOf(a) == {i \in 1..Len(chunk_summaries) : chunk_summaries[i].analysis_id = a}

RECURSIVE SumOver(_, _)
SumOver(f, keys) ==
    IF keys = {} THEN 0
    ELSE LET k == CHOOSE x \in keys : TRUE
         IN  f[k] + SumOver(f, keys \ {k})

\* C13 (SpecIndex): severity histogram completeness.  For every set of
\* stored summaries, also with severity 'unknown' or a severity outside the
\* five named levels, the bucket counts of aggregate_summaries'
\* severity_distribution add up to total_chunks, the number of stored
\* summaries of the analysis.
C13_HistogramComplete ==
    IsCall("aggregate") =>
        LET agg == ix_call.agg
            dist == agg.severity_distribution
        IN  /\ agg.total_chunks = Cardinality(RowsOf(ix_call.analysis_id))
            /\ SumOver(dist, DOMAIN dist) = agg.total_chunks

\* an analysis with a summary of severity 'unknown' and one of a severity
\* that is not among the named ones has been aggregated
C13_Witness ==
    /\ IsCall("aggregate")
    /\ ix_call.agg.total_chunks = 3
    /\ {"unknown", "severe"} \subseteq DOMAIN ix_call.agg.severity_distribution
    /\ ix_call.agg.severity_distribution["unknown"] = 1

\* the severity buckets of the specification
SpecSeverities == {"critical", "high", "medium", "low", "info", "unknown"}

\* C14 (SpecIndex): the severity_distribution of aggregate_summaries has a
\* key for each of critical, high, medium, low, info and unknown, with count
\* 0 for a bucket no stored summary falls in, also for an analysis without
\* stored summaries.
C14_AllBucketsPresent ==
    IsCall("aggregate") =>
        LET dist == ix_call.agg.severity_distribution
        IN  \A sev \in SpecSeverities :
                /\ sev \in DOMAIN dist
                /\ dist[sev] = Cardinality({i \in RowsOf(ix_call.analysis_id) :
                                               chunk_summaries[i].severity = sev})

\* critical > high > medium > low > info > unknown
SpecRank ==
    [critical |-> 5, high |-> 4, medium |-> 3, low |-> 2, info |-> 1,
     unknown |-> 0]

\* C15 (SpecIndex): get_summaries_by_severity(analysis id, min_severity)
\* returns exactly the stored summaries of the analysis whose severity is at
\* or above min_severity in critical > high > medium > low > info > unknown;
\* an 'unknown' summary is returned only for the threshold 'unknown', which
\* returns every summary.
C15_SeverityThreshold ==
    IsCall("by_severity") =>
        LET a == ix_call.analysis_id
            returned == SeqRange(ix_call.rows)
        IN  /\ \A r \in returned :
                 \E i \in RowsOf(a) : chunk_summaries[i] = r
            /\ \A i \in RowsOf(a) :
                 LET r == chunk_summaries[i]
                 IN  r.severity \in SpecSeverities =>
                        (r \in returned <=>
                            SpecRank[r.severity] >= SpecRank[ix_call.min_severity])

\* C16 (SpecIndex): the list get_summaries_by_severity returns is ordered by
\* severity rank descending (critical, high, medium, low, info) and, among
\* summaries of equal severity, by chunk_id ascending.
C16_SeverityOrder ==
    IsCall("by_severity") =>
        LET res == ix_call.rows
        IN  \A i \in 1..Len(res), j \in 1..Len(res) :
                (/\ i < j
                 /\ res[i].severity \in BaseSeverities
                 /\ res[j].severity \in BaseSeverities)
                => \/ SpecRank[res[i].severity] > SpecRank[res[j].severity]
                   \/ /\ res[i].severity = res[j].severity
                      /\ res[i].chunk_id <= res[j].chunk_id

\* how often x occurs in the list s
Count(s, x) == Cardinality({i \in 1..Len(s) : s[i] = x})

\* C17 (SpecIndex): get_all_summaries(analysis id) returns every stored
\* summary of that analysis and none of another one, ordered by chunk_id
\* ascending, whatever the order of the puts and however puts for
\* different analyses were interleaved.
C17_GetAllComplete ==
    IsCall("get_all") =>
        LET a == ix_call.analysis_id
            res == ix_call.rows
        IN  /\ Len(res) = Cardinality(RowsOf(a))
            /\ \A i \in 1..Len(res) : res[i].analysis_id = a
            /\ \A i \in RowsOf(a) :
                 Count(res, chunk_summaries[i])
                     = Cardinality({j \in RowsOf(a) :
                                       chunk_summaries[j] = chunk_summaries[i]})
            /\ \A i \in 1..Len(res), j \in 1..Len(res) :
                 i < j => res[i].chunk_id <= res[j].chunk_id

\* the summaries of analysis 1 were stored with the higher ordinal first and
\* a summary of analysis 2 in between
C17_Witness ==
    /\ IsCall("get_all")
    /\ ix_call.analysis_id = 1
    /\ Len(chunk_summaries) = 3
    /\ chunk_summaries[1].analysis_id = 1
    /\ chunk_summaries[2].analysis_id = 2
    /\ chunk_summaries[3].analysis_id = 1
    /\ chunk_summaries[1].chunk_id > chunk_summaries[3].chunk_id

\* the highest ordinal stored for analysis a (-1 when it has no row)
MaxOrdinal(a) ==
    IF RowsOf(a) = {} THEN 0 - 1
    ELSE LET ids == {chunk_summaries[i].chunk_id : i \in RowsOf(a)}
         IN  CHOOSE m \in ids : \A n \in ids : n <= m

RECURSIVE RowsThrough(_, _)
\* the rows of analysis a with ordinal 0, then those with ordinal 1, ... k
RowsThrough(a, k) ==
    IF k < 0 THEN <<>>
    ELSE RowsThrough(a, k - 1)
         \o SelectSeq(chunk_summaries,
                      LAMBDA r : r.analysis_id = a /\ r.chunk_id = k)

RECURSIVE JoinColumn(_, _)
\* the lists held in column col of the rows rs, one after the other
JoinColumn(rs, col) ==
    IF rs = <<>> THEN <<>>
    ELSE JsonValue(Head(rs)[col]) \o JoinColumn(Tail(rs), col)

\* C18 (SpecIndex): aggregate_summaries folds in stored-ordinal order.
\* error_patterns, api_endpoints and performance_issues are each the
\* concatenation, in ascending chunk_id order and without deduplication,
\* of the corresponding list of every stored summary of the analysis, each
\* list in its own order; key_patterns is the duplicate-free union of the
\* summaries' tags.
C18_FoldInOrdinalOrder ==
    IsCall("aggregate") =>
        LET a == ix_call.analysis_id
            agg == ix_call.agg
            rs == RowsThrough(a, MaxOrdinal(a))
        IN  /\ agg.error_patterns = JoinColumn(rs, "errors_json")
            /\ agg.api_endpoints = JoinColumn(rs, "api_calls_json")
            /\ agg.performance_issues = JoinColumn(rs, "performance_issues_json")
            /\ agg.key_patterns =
                 UNION {SeqRange(JsonValue(chunk_summaries[i].key_patterns_json)) :
                        i \in RowsOf(a)}

\* the summary of ordinal 1 was stored before the one of ordinal 0, and the
\* aggregated error list holds the same entry twice
C18_Witness ==
    /\ IsCall("aggregate")
    /\ Len(chunk_summaries) >= 2
    /\ chunk_summaries[1].analysis_id = ix_call.analysis_id
    /\ chunk_summaries[2].analysis_id = ix_call.analysis_id
    /\ chunk_summaries[1].chunk_id > chunk_summaries[2].chunk_id
    /\ Len(ix_call.agg.error_patterns) = 3
    /\ ix_call.agg.error_patterns[2] = ix_call.agg.error_patterns[3]
    /\ ix_call.agg.error_patterns[1] # ix_call.agg.error_patterns[2]

\* the timeline entry of a stored row
TimelineEntry(r) ==
    [timestamp |-> r.timestamp_start, chunk_id |-> r.chunk_id,
     severity |-> r.severity,
     summary |-> [text |-> r.summary.text,
                  len |-> Min(r.summary.len, SummaryTruncation)]]

\* C19 (SpecIndex): the timeline of aggregate_summaries has exactly one
\* entry for each stored summary with a start time and none for one
\* without; the entries are sorted ascending by start timestamp, entries of
\* equal timestamp in ascending ordinal order, and each carries the
\* summary's chunk_id, its severity and its synopsis cut to 100 characters.
C19_Timeline ==
    IsCall("aggregate") =>
        LET a == ix_call.analysis_id
            tl == ix_call.agg.timeline
            started == {i \in RowsOf(a) : chunk_summaries[i].timestamp_start # NULL}
        IN  /\ Len(tl) = Cardinality(started)
            /\ \A i \in started :
                 Count(tl, TimelineEntry(chunk_summaries[i]))
                     = Cardinality({j \in started :
                           TimelineEntry(chunk_summaries[j])
                               = TimelineEntry(chunk_summaries[i])})
            /\ \A i \in 1..Len(tl) :
                 /\ tl[i].timestamp # NULL
                 /\ tl[i].summary.len <= SummaryTruncation
            /\ \A i \in 1..Len(tl), j \in 1..Len(tl) :
                 i < j =>
                    \/ tl[i].timestamp.str < tl[j].timestamp.str
                    \/ /\ tl[i].timestamp.str = tl[j].timestamp.str
                       /\ tl[i].chunk_id <= tl[j].chunk_id

\* three stored summaries, one without a start time; the later ordinal
\* starts earlier, and its synopsis was longer than 100 characters
C19_Witness ==
    /\ IsCall("aggregate")
    /\ ix_call.agg.total_chunks = 3
    /\ Len(ix_call.agg.timeline) = 2
    /\ ix_call.agg.timeline[1].chunk_id > ix_call.agg.timeline[2].chunk_id
    /\ ix_call.agg.timeline[1].summary.len = SummaryTruncation

C21_RoutingThreshold ==
    \A c \in Calls :
        calls[c].path # "none" =>
            LET size == FileSize(analyses[calls[c].analysis_id].file)
            IN  /\ calls[c].path = "chunk" <=> size >= 100000
                /\ calls[c].path = "single" <=> size <= 99999
                /\ calls[c].path = "chunk" => calls[c].pc \in {"summarize", "done"}
                /\ calls[c].path = "single" =>
                     /\ calls[c].pc \in {"single", "done"}
                     /\ calls[c].k = 0
                     /\ chunk_summaries = <<>>

\* a call on a file of exactly 100000 bytes has finished on the chunking
\* path
C21_Witness ==
    \E c \in Calls :
        /\ ChunkRunDone(c)
        /\ FileSize(analyses[calls[c].analysis_id].file) = 100000
        /\ calls[c].k >= 1

\* the puts made for analysis a, as positions in ix_puts
PutsOf(a) == {i \in 1..Len(ix_puts) : ix_puts[i].analysis_id = a}

\* the puts made so far for analysis a are for pairwise distinct ordinals
DistinctOrdinals(a) ==
    \A i \in PutsOf(a), j \in PutsOf(a) :
        i # j => ix_puts[i].summary.chunk_id # ix_puts[j].summary.chunk_id

\* C22 (SpecIndex): concurrent puts.  store_chunk_summary runs from its
\* INSERT to its commit without an await, so concurrent callers interleave
\* as whole calls.  For every order of store_chunk_summary calls for
\* distinct ordinals of one analysis (and of calls for other analyses), once
\* they have returned get_all_summaries returns exactly one entry per
\* written ordinal, holding the value that call wrote.
C22_ConcurrentPuts ==
    (IsCall("get_all") /\ DistinctOrdinals(ix_call.analysis_id)) =>
        LET a == ix_call.analysis_id
            res == ix_call.rows
        IN  /\ Len(res) = Cardinality(PutsOf(a))
            /\ \A i \in PutsOf(a) :
                 Count(res, SummaryRow(a, ix_puts[i].summary)) = 1

\* three puts for the ordinals 2, 1, 0 of one analysis, then get_all
C22_Witness ==
    /\ IsCall("get_all")
    /\ Len(ix_puts) = 3
    /\ \A i \in 1..3 : ix_puts[i].analysis_id = ix_call.analysis_id
    /\ \A i \in 1..3 : ix_puts[i].summary.chunk_id = 3 - i
    /\ Len(ix_call.rows) = 3

\* C28 (SpecCache): expiry is evaluated on read and eviction is lazy.  A
\* get(id) returns the value of the latest set(id, value) that no clear has
\* removed since exactly when less than the ttl has elapsed since that set,
\* and None otherwise; a set leaves the entry holding its value stamped with
\* the time of the set; and an entry leaves the cache only in a step that is
\* a get of that id finding it expired or a clear of that id or of
\* everything, never in a step where time passes or where another id is got
\* or set.
C28_GetReturns ==
    (cache_call # NULL /\ cache_call.op = "get") =>
        LET latest == cache_sets[cache_call.id]
        IN  cache_call.result =
              IF latest # NULL /\ cache_call.at - latest.timestamp < 3600
              THEN [null |-> FALSE, value |-> latest.data]
              ELSE NULL

C28_SetRestarts ==
    (cache_call # NULL /\ cache_call.op = "set") =>
        /\ cache[cache_call.id] # NULL
        /\ cache[cache_call.id].timestamp = cache_call.at
        /\ cache[cache_call.id] = cache_sets[cache_call.id]

C28_Eviction ==
    \A id \in CacheKeys :
        (cache[id] # NULL /\ cache'[id] = NULL) =>
            /\ clock' = clock
            /\ \/ /\ cache_call'.op = "get"
                  /\ cache_call'.id = id
                  /\ cache_call'.result = NULL
                  /\ clock - cache[id].timestamp >= 3600
               \/ /\ cache_call'.op = "clear"
                  /\ cache_call'.id \in {0, id}

C28_LazyExpiry ==
    /\ [](C28_GetReturns /\ C28_SetRestarts)
    /\ [][C28_Eviction]_vars

\* a get exactly one ttl after the set returned None, while the entry of
\* another id, as old, is still in the cache
C28_Witness ==
    /\ cache_call # NULL
    /\ cache_call.op = "get"
    /\ cache_call.result = NULL
    /\ cache_sets[cache_call.id] # NULL
    /\ cache_call.at - cache_sets[cache_call.id].timestamp = 3600
    /\ cache[cache_call.id] = NULL
    /\ \E other \in CacheKeys \ {cache_call.id} :
          /\ cache[other] # NULL
          /\ clock - cache[other].timestamp >= 3600

\* C26 (SpecChunker): line ranges are inclusive, 1-based and partition the
\* file.  The first segment stream_chunks emits starts at line 1, every
\* later segment starts at the line after the end of the one before it, the
\* last one ends at the last line of the file, and each segment's content
\* is the lines start_line..end_line of the file.
C26_LineRangesPartition ==
    (ck_strategy = "size" /\ ck_chunks # <<>>) =>
        /\ ck_chunks[1].start_line = 1
        /\ \A k \in 1..(Len(ck_chunks) - 1) :
              ck_chunks[k + 1].start_line = ck_chunks[k].end_line + 1
        /\ ck_chunks[Len(ck_chunks)].end_line = Len(ck_file)
        /\ \A k \in 1..Len(ck_chunks) :
              /\ ck_chunks[k].start_line \in 1..ck_chunks[k].end_line
              /\ ck_chunks[k].content =
                    SubSeq(ck_file, ck_chunks[k].start_line, ck_chunks[k].end_line)

\* the timestamp of the window start of segment k of smart_chunk_by_time:
\* that of its first timestamped line
WindowStart(k) == FirstTimestamp(ck_chunks[k].content)

\* C27 (SpecChunker): the time-window boundary rule.  The segments of
\* smart_chunk_by_time are the file cut at some lines; every segment after
\* the first begins with a timestamped line that is more than the window
\* later than the window start of the segment before it, and that timestamp
\* is its own window start; inside a segment no timestamped line is more
\* than the window later than the segment's window start, so every line
\* that had to start a segment did, and a line without a timestamp or with
\* an earlier timestamp never does; the range a segment carries is its
\* window start and the timestamp of the line that closed it.
C27_TimeWindowBoundary ==
    ck_strategy = "time" =>
        /\ Concat(ck_chunks) = ck_file
        /\ \A k \in 1..Len(ck_chunks) : ck_chunks[k].content # <<>>
        /\ \A k \in 2..Len(ck_chunks) :
              LET first == ck_chunks[k].content[1]
              IN  /\ first.ts # NoTime
                  /\ first.ts - WindowStart(k - 1) > ck_window
                  /\ WindowStart(k - 1) # NoTime
                  /\ ck_chunks[k].timestamp_range[1] = first.ts
                  /\ ck_chunks[k - 1].timestamp_range[2] = first.ts
        /\ \A k \in 1..Len(ck_chunks) :
              /\ ck_chunks[k].timestamp_range[1] = WindowStart(k)
              /\ \A j \in 1..Len(ck_chunks[k].content) :
                    LET line == ck_chunks[k].content[j]
                    IN  line.ts # NoTime =>
                            line.ts - WindowStart(k) <= ck_window

\* two segments, the first of which kept a second timestamped line that is
\* exactly the window later than its window start
C27_Witness ==
    /\ ck_strategy = "time"
    /\ Len(ck_chunks) = 2
    /\ Len(ck_chunks[1].content) = 2
    /\ ck_chunks[1].content[1].ts # NoTime
    /\ ck_chunks[1].content[2].ts # NoTime
    /\ ck_chunks[1].content[2].ts - ck_chunks[1].content[1].ts = ck_window

\* C30 (SpecRun): a failed run persists no success data.  When the chunking
\* path has raised after aggregation, while it inserted the pattern records,
\* the analysis is 'failed' and the committed row shows neither the
\* completion timestamp nor the aggregated result that run had written.
C30_FailedRunPersistsNothing ==
    \A c \in Calls :
        (ChunkRunDone(c) /\ calls[c].malformed) =>
            LET row == analyses[calls[c].analysis_id]
            IN  /\ row.status = "failed"
                /\ row.completed_at = NULL
                /\ row.analysis_data = NULL

\* the timestamp of the first (last) timestamped line among lines from..to
\* of a segment, NoTime when there is none
StampedIn(content, from, to) == {i \in from..to : content[i].ts # NoTime}
FirstStamp(content, from, to) ==
    IF StampedIn(content, from, to) = {} THEN NoTime
    ELSE content[CHOOSE i \in StampedIn(content, from, to) :
                    \A j \in StampedIn(content, from, to) : i <= j].ts
LastStamp(content, from, to) ==
    IF StampedIn(content, from, to) = {} THEN NoTime
    ELSE content[CHOOSE i \in StampedIn(content, from, to) :
                    \A j \in StampedIn(content, from, to) : i >= j].ts

\* C24 (SpecTimeRange): the time range of a segment.  Every segment
\* stream_chunks emits carries as start time the timestamp of the first
\* timestamped line among its first 10 lines and as end time the timestamp
\* of the last timestamped line among its last 10 lines, each null when
\* there is no such line.
C24_TimeRangeOfSegment ==
    ck_strategy = "size" =>
        \A k \in 1..Len(ck_chunks) :
            LET content == ck_chunks[k].content
                n == Len(content)
            IN  /\ ck_chunks[k].timestamp_range[1] =
                      FirstStamp(content, 1, Min(10, n))
                /\ ck_chunks[k].timestamp_range[2] =
                      LastStamp(content, n - Min(10, n) + 1, n)

\* the positions of the events of kind e in the history of call c
EventsAt(c, e) == {i \in 1..Len(calls[c].events) : calls[c].events[i].e = e}

\* C25 (SpecRun): the order of a run of the chunking path.  The call wrote
\* status 'analyzing' before it issued its first summarization call; it
\* issued the summarization calls for ordinals 0, 1, 2, ... in that order,
\* each one only after the loop body of the segment before it had ended
\* (summary stored or failure handled); it called aggregate_summaries at
\* most once, exactly once when the run completed, after the body of the
\* last segment and before it wrote 'completed', and issued no
\* summarization call after it.
C25_RunOrder ==
    \A c \in Calls : calls[c].path = "chunk" =>
        LET ev == calls[c].events
            n == Len(SegmentsOf(calls[c].analysis_id))
        IN  /\ \A i \in EventsAt(c, "summarize") :
                  /\ \E j \in EventsAt(c, "analyzing") : j < i
                  /\ ev[i].chunk_id =
                        Cardinality({j \in EventsAt(c, "summarize") : j < i})
                  /\ ev[i].chunk_id > 0 =>
                        \E h \in EventsAt(c, "handled") :
                            /\ h < i
                            /\ ev[h].chunk_id = ev[i].chunk_id - 1
                  /\ \A g \in EventsAt(c, "aggregate") : i < g
            /\ \A h \in EventsAt(c, "handled") :
                  \E i \in EventsAt(c, "summarize") :
                      i < h /\ ev[i].chunk_id = ev[h].chunk_id
            /\ Cardinality(EventsAt(c, "aggregate")) <= 1
            /\ \A g \in EventsAt(c, "aggregate") :
                  \E h \in EventsAt(c, "handled") :
                      h < g /\ ev[h].chunk_id = n - 1
            /\ \A d \in EventsAt(c, "completed") :
                  \E g \in EventsAt(c, "aggregate") : g < d
            /\ (calls[c].pc = "done" /\ calls[c].ret_status = "completed") =>
                  /\ Cardinality(EventsAt(c, "aggregate")) = 1
                  /\ Cardinality(EventsAt(c, "summarize")) = n

\* a run over three segments has completed
C25_Witness ==
    \E c \in Calls :
        /\ ChunkRunDone(c)
        /\ calls[c].ret_status = "completed"
        /\ Len(SegmentsOf(calls[c].analysis_id)) = 3
        /\ Cardinality(EventsAt(c, "handled")) = 3

\* the analyses whose row this step deletes
DeletedNow ==
    {a \in DOMAIN analyses :
        RowExists(analyses[a]) /\ analyses'[a].status = "deleted"}

\* C23 (SpecLifecycle): stored summaries go only with their analysis.  A
\* step that deletes analyses (delete_analysis, delete_all_analyses) leaves
\* in the store exactly the summaries of the other analyses, unchanged and
\* in their order; every other step (upload, analyze, aggregate inside it,
\* generate_tests) leaves every stored summary as it is and can only add
\* summaries after them.
C23_Step ==
    LET kept == SelectSeq(chunk_summaries,
                          LAMBDA r : r.analysis_id \notin DeletedNow)
    IN  /\ Len(chunk_summaries') >= Len(kept)
        /\ SubSeq(chunk_summaries', 1, Len(kept)) = kept
        /\ DeletedNow # {} => chunk_summaries' = kept
        /\ DeletedNow = {} => kept = chunk_summaries

C23_SummariesGoWithAnalysis == [][C23_Step]_vars

\* analysis 1 was analyzed in full and then deleted with its summaries,
\* the summaries of analysis 2 are still stored, and generate_tests has run
\* on analysis 2
C23_Witness ==
    /\ analyses[1].status = "deleted"
    /\ RowsOf(1) = {}
    /\ \E c \in Calls :
          /\ ChunkRunDone(c)
          /\ calls[c].analysis_id = 1
          /\ calls[c].http = 200
          /\ calls[c].failed = {}
    /\ analyses[2].status = "completed"
    /\ Cardinality(RowsOf(2)) = Len(analyses[2].file)
    /\ gen_call # NULL
    /\ gen_call.analysis_id = 2
    /\ gen_call.http = 200

\* C29 (SpecLifecycle): test generation works from the current analysis result.
\* The error patterns, API endpoints and performance issues of the context
\* a generate_tests call hands to the generator are those of the result the
\* most recent completed analyze run persisted, which is the analysis_data
\* the call read from the row, whether or not an earlier call cached a
\* context for the id.
C29_CurrentContext ==
    (gen_call # NULL /\ gen_call.http = 200) =>
        LET current == CompleteAnalysis(gen_call.read)
            passed == gen_call.context.value
        IN  /\ passed.error_patterns = Get(current, "error_patterns", <<>>)
            /\ passed.api_endpoints = Get(current, "api_endpoints", <<>>)
            /\ passed.performance_issues =
                    Get(current, "performance_issues", <<>>)

====
